---- MODULE Spec2Model ----
(***************************************************************************)
(* Model of kalshi-radar: the session-token gateway of api_client.py, the  *)
(* get_kalshi_client accessor, and the scoring engine and aggregation      *)
(* endpoints of cloud-run/app.py.                                          *)
(***************************************************************************)
EXTENDS Integers, Sequences, FiniteSets, TLC

\* ------------------------------------------------------------------ bounds
\* calls of _get_auth_token made in a run: by the single caller, and by the
\* two concurrent requests together
MaxSeqCalls == 3
MaxCalls == 2
\* advances of the wall clock in a run
MaxTicks == 2

\* ------------------------------------------------------- program constants
\* api_client.py:41   23 * 60 * 60 seconds
TokenTTL == 82800

\* Python None for self.token (tokens themselves are 1, 2, ...)
None == 0

Threads == {1, 2}

\* amounts by which the wall clock may advance between two steps
TickSteps == {1, TokenTTL - 1}

VARIABLES
    \* KalshiAPIClient fields (api_client.py:15-16)
    token, token_expiry,
    \* time.time()
    now, nticks,
    \* per running call of _get_auth_token: position, locals, result
    pc, current_time, response, ret,
    \* the requests that exist in this run
    callers,
    \* history: tokens issued by a 200 login, when each login started,
    \* logins per call, logins and calls in total, cache seen at call start
    issued, loginStart, nlogins, totalLogins, ncalls, startToken, startExpiry,
    \* module global _kalshi_client of api_client.py, and accessor results
    kclient, constructed, kresult,
    \* cloud-run/app.py: the market handed to calculate_inefficiency_score
    \* and what it returned
    market, score,
    \* cloud-run/app.py: the request (limit, category), what the upstream API
    \* answers to get_series and get_markets_for_series, and the response
    limit, category_filter, series_fetch, series_data, resp,
    \* whether the scoring call / the request handler has run
    phase,
    \* markets.py: what the upstream API answers to the market listing and to
    \* each market's order-book request
    listing

gwvars == <<token, token_expiry, now, nticks, pc, current_time, response, ret,
            callers, issued, loginStart, nlogins, totalLogins, ncalls,
            startToken, startExpiry>>
kcvars == <<kclient, constructed, kresult>>
appvars == <<market, score, limit, category_filter, series_fetch, series_data,
             resp, phase, listing>>
vars == <<gwvars, kcvars, appvars>>

\* ------------------------------------------------------------ the gateway
\* `if self.token` : None and the empty string are falsy
Truthy(tok) == tok # None

\* `current_time < self.token_expiry`
ExpiryOkLate(ct, exp) == ct <= exp
ExpiryOk(ct, exp) == ct < exp

\* `current_time + (23 * 60 * 60)`
NewExpiry(ct) == ct + TokenTTL

\* KalshiAPIClient.__init__
ClientInit ==
    /\ token = None
    /\ token_expiry = 0

GatewayInit(cs) ==
    /\ ClientInit
    /\ now = 1
    /\ nticks = 0
    /\ callers = cs
    /\ pc = [t \in Threads |-> "idle"]
    /\ current_time = [t \in Threads |-> 0]
    /\ response = [t \in Threads |-> None]
    /\ ret = [t \in Threads |-> None]
    /\ issued = {}
    /\ loginStart = [k \in 1..(MaxSeqCalls + MaxCalls) |-> 0]
    /\ nlogins = [t \in Threads |-> 0]
    /\ totalLogins = 0
    /\ ncalls = 0
    /\ startToken = [t \in Threads |-> None]
    /\ startExpiry = [t \in Threads |-> 0]

CallBudget == IF Cardinality(callers) = 1 THEN MaxSeqCalls ELSE MaxCalls

\* a caller enters _get_auth_token
Call(t) ==
    /\ t \in callers
    /\ pc[t] = "idle"
    /\ ncalls < CallBudget
    /\ ncalls' = ncalls + 1
    /\ nlogins' = [nlogins EXCEPT ![t] = 0]
    /\ pc' = [pc EXCEPT ![t] = "L20"]
    /\ UNCHANGED <<token, token_expiry, now, nticks, current_time, response,
                   ret, callers, issued, loginStart, totalLogins, startToken,
                   startExpiry, kcvars, appvars>>

\* line 20: current_time = time.time()
ReadTime(t) ==
    /\ pc[t] = "L20"
    /\ current_time' = [current_time EXCEPT ![t] = now]
    /\ startToken' = [startToken EXCEPT ![t] = token]
    /\ startExpiry' = [startExpiry EXCEPT ![t] = token_expiry]
    /\ pc' = [pc EXCEPT ![t] = "L23"]
    /\ UNCHANGED <<token, token_expiry, now, nticks, response, ret, callers,
                   issued, loginStart, nlogins, totalLogins, ncalls, kcvars, appvars>>

\* line 23, left operand: `self.token and ...` short-circuits on a falsy token
CheckToken(t) ==
    /\ pc[t] = "L23"
    /\ pc' = [pc EXCEPT ![t] = IF Truthy(token) THEN "L23b" ELSE "L27"]
    /\ UNCHANGED <<token, token_expiry, now, nticks, current_time, response,
                   ret, callers, issued, loginStart, nlogins, totalLogins,
                   ncalls, startToken, startExpiry, kcvars, appvars>>

\* line 23, right operand: `current_time < self.token_expiry`
CheckExpiry(t) ==
    /\ pc[t] = "L23b"
    /\ pc' = [pc EXCEPT ![t] =
                IF ExpiryOk(current_time[t], token_expiry) THEN "L24" ELSE "L27"]
    /\ UNCHANGED <<token, token_expiry, now, nticks, current_time, response,
                   ret, callers, issued, loginStart, nlogins, totalLogins,
                   ncalls, startToken, startExpiry, kcvars, appvars>>

\* line 24: return self.token
ReturnCached(t) ==
    /\ pc[t] = "L24"
    /\ ret' = [ret EXCEPT ![t] = token]
    /\ pc' = [pc EXCEPT ![t] = "done"]
    /\ UNCHANGED <<token, token_expiry, now, nticks, current_time, response,
                   callers, issued, loginStart, nlogins, totalLogins, ncalls,
                   startToken, startExpiry, kcvars, appvars>>

\* lines 27-38: POST /login answered 200 with a fresh token in the body
LoginOk(t) ==
    /\ pc[t] = "L27"
    /\ LET fresh == Cardinality(issued) + 1 IN
        /\ response' = [response EXCEPT ![t] = fresh]
        /\ issued' = issued \cup {fresh}
        /\ loginStart' = [loginStart EXCEPT ![fresh] = now]
    /\ nlogins' = [nlogins EXCEPT ![t] = @ + 1]
    /\ totalLogins' = totalLogins + 1
    /\ pc' = [pc EXCEPT ![t] = "L39"]
    /\ UNCHANGED <<token, token_expiry, now, nticks, current_time, ret,
                   callers, ncalls, startToken, startExpiry, kcvars, appvars>>

\* LoginFail with the cached token overwritten before the status check
LoginFailClobber(t) ==
    /\ pc[t] = "L27"
    /\ nlogins' = [nlogins EXCEPT ![t] = @ + 1]
    /\ totalLogins' = totalLogins + 1
    /\ token' = None
    /\ pc' = [pc EXCEPT ![t] = "raised"]
    /\ UNCHANGED <<token_expiry, now, nticks, current_time, response,
                   ret, callers, issued, loginStart, ncalls, startToken,
                   startExpiry, kcvars, appvars>>

\* lines 27-36: POST /login answered non-200, the call raises
LoginFail(t) ==
    /\ pc[t] = "L27"
    /\ nlogins' = [nlogins EXCEPT ![t] = @ + 1]
    /\ totalLogins' = totalLogins + 1
    /\ pc' = [pc EXCEPT ![t] = "raised"]
    /\ UNCHANGED <<token, token_expiry, now, nticks, current_time, response,
                   ret, callers, issued, loginStart, ncalls, startToken,
                   startExpiry, kcvars, appvars>>

\* line 39: self.token = data['token']
StoreToken(t) ==
    /\ pc[t] = "L39"
    /\ token' = response[t]
    /\ pc' = [pc EXCEPT ![t] = "L41"]
    /\ UNCHANGED <<token_expiry, now, nticks, current_time, response, ret,
                   callers, issued, loginStart, nlogins, totalLogins, ncalls,
                   startToken, startExpiry, kcvars, appvars>>

\* line 41: self.token_expiry = current_time + (23 * 60 * 60)
StoreExpiry(t) ==
    /\ pc[t] = "L41"
    /\ token_expiry' = NewExpiry(current_time[t])
    /\ pc' = [pc EXCEPT ![t] = "L43"]
    /\ UNCHANGED <<token, now, nticks, current_time, response, ret, callers,
                   issued, loginStart, nlogins, totalLogins, ncalls,
                   startToken, startExpiry, kcvars, appvars>>

\* line 43: return self.token
ReturnToken(t) ==
    /\ pc[t] = "L43"
    /\ ret' = [ret EXCEPT ![t] = token]
    /\ pc' = [pc EXCEPT ![t] = "done"]
    /\ UNCHANGED <<token, token_expiry, now, nticks, current_time, response,
                   callers, issued, loginStart, nlogins, totalLogins, ncalls,
                   startToken, startExpiry, kcvars, appvars>>

\* the caller takes the result (or the exception) and may call again
Finish(t) ==
    /\ pc[t] \in {"done", "raised"}
    /\ pc' = [pc EXCEPT ![t] = "idle"]
    /\ current_time' = [current_time EXCEPT ![t] = 0]
    /\ response' = [response EXCEPT ![t] = None]
    /\ ret' = [ret EXCEPT ![t] = None]
    /\ nlogins' = [nlogins EXCEPT ![t] = 0]
    /\ startToken' = [startToken EXCEPT ![t] = None]
    /\ startExpiry' = [startExpiry EXCEPT ![t] = 0]
    /\ UNCHANGED <<token, token_expiry, now, nticks, callers, issued,
                   loginStart, totalLogins, ncalls, kcvars, appvars>>

\* the wall clock advances
Tick ==
    /\ nticks < MaxTicks
    /\ \E d \in TickSteps : now' = now + d
    /\ nticks' = nticks + 1
    /\ UNCHANGED <<token, token_expiry, pc, current_time, response, ret,
                   callers, issued, loginStart, nlogins, totalLogins, ncalls,
                   startToken, startExpiry, kcvars, appvars>>

\* ------------------------------------------------- get_kalshi_client
\* api_client.py:123 sits inside get_market_history after its returns, so
\* loading the module binds no global named _kalshi_client.
ModuleLoad == kclient = "unbound"

\* api_client.py:125-130
get_kalshi_client(t) ==
    /\ t \in callers
    /\ pc[t] = "idle"
    /\ kresult[t] = "none"
    /\ IF kclient = "unbound"
         THEN /\ kresult' = [kresult EXCEPT ![t] = "NameError"]
              /\ UNCHANGED <<kclient, constructed>>
         ELSE IF kclient = "None"
                THEN /\ kclient' = "instance"
                     /\ constructed' = constructed + 1
                     /\ kresult' = [kresult EXCEPT ![t] = "instance"]
                ELSE /\ kresult' = [kresult EXCEPT ![t] = kclient]
                     /\ UNCHANGED <<kclient, constructed>>
    /\ UNCHANGED <<gwvars, appvars>>

KcInit ==
    /\ ModuleLoad
    /\ constructed = 0
    /\ kresult = [t \in Threads |-> "none"]

\* ------------------------------------------------ numbers of app.py
\* The floats of app.py are modelled as exact fractions [n, d] with d > 0
\* in lowest terms; round(x, 2) becomes an integer count of hundredths.
Abs(x) == IF x < 0 THEN -x ELSE x
Max(a, b) == IF a >= b THEN a ELSE b
Min(a, b) == IF a <= b THEN a ELSE b

RECURSIVE GCD(_, _)
GCD(a, b) == IF b = 0 THEN a ELSE GCD(b, a % b)

Frac(n, d) ==
    LET g == GCD(Abs(n), Abs(d))
        sgn == IF d < 0 THEN -1 ELSE 1
    IN [n |-> sgn * (n \div g), d |-> sgn * (d \div g)]
FInt(k) == [n |-> k, d |-> 1]
FDiv(x, y) == Frac(x.n * y.d, x.d * y.n)
FMul(x, y) ==
    LET a == Frac(x.n, y.d)
        b == Frac(y.n, x.d)
    IN Frac(a.n * b.n, a.d * b.d)
FAdd(x, y) ==
    LET g == GCD(x.d, y.d) IN Frac(x.n * (y.d \div g) + y.n * (x.d \div g),
                                   x.d * (y.d \div g))
FGt(x, y) ==
    LET g == GCD(x.d, y.d) IN x.n * (y.d \div g) > y.n * (x.d \div g)
FIsZero(x) == x.n = 0

\* n / d rounded to the nearest integer, halves to the even neighbour
RoundDiv(n, d) ==
    LET q == n \div d
        r == n % d
    IN IF 2 * r < d THEN q
       ELSE IF 2 * r > d THEN q + 1
       ELSE IF q % 2 = 0 THEN q ELSE q + 1

\* round(x, 2), in hundredths
Round2(x) ==
    LET q == x.n \div x.d
        r == x.n % x.d
    IN q * 100 + RoundDiv(r * 100, x.d)

\* ------------------------------------------------- the scoring engine
\* dict.get(field, default)
Get(m, f, dflt) == IF f \in DOMAIN m THEN m[f] ELSE dflt

\* `return None`
NoneScore == [none |-> TRUE]
IsRecord(s) == "inefficiency_score" \in DOMAIN s

\* SpreadOf with the operands swapped
SpreadOfSwapped(yes_bid, yes_ask) == yes_bid - yes_ask

\* app.py:117  spread = yes_ask - yes_bid
SpreadOf(yes_bid, yes_ask) == yes_ask - yes_bid

\* Excluded with the open-interest bar applied as <= 50
ExcludedOffByOne(yes_bid, yes_ask, open_interest, volume_24h) ==
    IF open_interest <= 50 THEN TRUE
    ELSE IF volume_24h < 5 THEN TRUE
    ELSE IF yes_bid = 0 /\ yes_ask = 100 THEN TRUE
    ELSE yes_bid + yes_ask = 0

\* app.py:103-115  the four exclusion filters, in order
Excluded(yes_bid, yes_ask, open_interest, volume_24h) ==
    IF open_interest < 50 THEN TRUE
    ELSE IF volume_24h < 5 THEN TRUE
    ELSE IF yes_bid = 0 /\ yes_ask = 100 THEN TRUE
    ELSE FIsZero(FDiv(FInt(yes_bid + yes_ask), FInt(2)))

\* app.py:141-148
AnalysisOf(spread_pct) ==
    IF FGt(spread_pct, Frac(10, 100))
      THEN "Very wide spread (>10%) - high inefficiency"
    ELSE IF FGt(spread_pct, Frac(5, 100))
      THEN "Wide spread (5-10%) - moderate inefficiency"
    ELSE IF FGt(spread_pct, Frac(2, 100))
      THEN "Moderate spread (2-5%) - potential opportunity"
    ELSE "Tight spread (<2%) - efficient market"

\* app.py:92-167
calculate_inefficiency_score(market_data) ==
    LET yes_bid == Get(market_data, "yes_bid", 0)
        yes_ask == Get(market_data, "yes_ask", 100)
        open_interest == Get(market_data, "open_interest", 0)
        volume_24h == Get(market_data, "volume_24h", 0)
    IN IF Excluded(yes_bid, yes_ask, open_interest, volume_24h)
         THEN NoneScore
         ELSE
           LET mid_price == FDiv(FInt(yes_bid + yes_ask), FInt(2))
               spread == SpreadOf(yes_bid, yes_ask)
               spread_pct == FDiv(FInt(spread), mid_price)
               last_price == Get(market_data, "last_price", 0)
               lvs_score == FMul(FMul(spread_pct, FInt(100)),
                                 FDiv(FInt(1000), FInt(Max(open_interest, 1))))
               mdr_score == FMul(FMul(spread_pct, FInt(100)),
                                 FDiv(FInt(500), FInt(Max(volume_24h + 1, 1))))
               inefficiency_score == FAdd(FMul(lvs_score, Frac(6, 10)),
                                          FMul(mdr_score, Frac(4, 10)))
               is_opportunity == /\ FGt(spread_pct, Frac(2, 100))
                                 /\ FGt(inefficiency_score, FInt(20))
           IN [ticker |-> Get(market_data, "ticker", ""),
               title |-> Get(market_data, "title", ""),
               series_ticker |-> Get(market_data, "series_ticker", ""),
               lvs_score |-> Round2(lvs_score),
               mdr_score |-> Round2(mdr_score),
               inefficiency_score |-> Round2(inefficiency_score),
               is_opportunity |-> is_opportunity,
               spread_pct |-> Round2(FMul(spread_pct, FInt(100))),
               mid_price |-> Round2(mid_price),
               yes_bid |-> yes_bid,
               yes_ask |-> yes_ask,
               open_interest |-> open_interest,
               volume_24h |-> volume_24h,
               last_price |-> last_price,
               analysis |-> AnalysisOf(spread_pct),
               category |-> Get(market_data, "category", "Other")]

\* ----- inputs of the scoring engine: every field present or missing
BidAskValues == {0, 1, 40, 48, 52, 60, 99, 100}
InterestValues == {0, 49, 50, 100}
VolumeValues == {0, 4, 5, 10}

OptField(name, values) == {<<>>} \cup {[f \in {name} |-> v] : v \in values}
ScoreInputs ==
    {a @@ b @@ c @@ d :
        a \in OptField("yes_bid", BidAskValues),
        b \in OptField("yes_ask", BidAskValues),
        c \in OptField("open_interest", InterestValues),
        d \in OptField("volume_24h", VolumeValues)}

\* no market listing requested
NoListing == [fetch |-> "fail", markets |-> <<>>]

AppIdle ==
    /\ listing = NoListing
    /\ market = <<>>
    /\ score = NoneScore
    /\ limit = 0
    /\ category_filter = ""
    /\ series_fetch = "ok"
    /\ series_data = <<>>
    /\ resp = [status |-> 0]
    /\ phase = "ready"

\* one call of calculate_inefficiency_score
Score ==
    /\ phase = "ready"
    /\ score' = calculate_inefficiency_score(market)
    /\ phase' = "done"
    /\ UNCHANGED <<market, limit, category_filter, series_fetch, series_data,
                   resp, listing, gwvars, kcvars>>

GatewayIdle ==
    /\ GatewayInit({})
    /\ KcInit

InitScore ==
    /\ GatewayIdle
    /\ listing = NoListing
    /\ market \in ScoreInputs
    /\ score = NoneScore
    /\ limit = 0
    /\ category_filter = ""
    /\ series_fetch = "ok"
    /\ series_data = <<>>
    /\ resp = [status |-> 0]
    /\ phase = "ready"
NextScore == Score
SpecScore == InitScore /\ [][NextScore]_vars

\* ------------------------------------------- the aggregation endpoints
MaxSeries == 2
MaxMarkets == 1
MaxLimit == 2

\* app.py:213, 261, 307  max_series of the three endpoints
MaxSeriesMarkets == 20
MaxSeriesScores == 30
MaxSeriesOpportunities == 50
\* app.py:219, 267, 313  markets inspected per series
PerSeriesMarkets == 5
PerSeriesScores == 5
PerSeriesOpportunities == 10

\* seq[:n] for n >= 0
Take(seq, n) == SubSeq(seq, 1, Min(n, Len(seq)))

\* str.lower() on the category names in use
Lower(c) ==
    IF c = "Crypto" THEN "crypto"
    ELSE IF c = "Sports" THEN "sports"
    ELSE c

\* app.py:207-208, 256-257, 302-303
FilterCategory(series_list, filter) ==
    IF filter # ""
      THEN SelectSeq(series_list,
                     LAMBDA sr : Lower(Get(sr, "category", "")) = Lower(filter))
      ELSE series_list

\* client.get_markets_for_series(series['ticker']) raises
FetchFails(series) == series.fetch = "fail"

\* app.py:220-230
MarketEntry(m, series) ==
    [ticker |-> Get(m, "ticker", ""),
     title |-> Get(m, "title", ""),
     series_ticker |-> series.ticker,
     category |-> Get(series, "category", "Other"),
     yes_bid |-> Get(m, "yes_bid", 0),
     yes_ask |-> Get(m, "yes_ask", 100),
     open_interest |-> Get(m, "open_interest", 0),
     volume_24h |-> Get(m, "volume_24h", 0),
     last_price |-> Get(m, "last_price", 0)]

\* app.py:268-269, 314-315
Tagged(m, series) ==
    [f \in DOMAIN m \cup {"series_ticker", "category"} |->
        IF f = "series_ticker" THEN series.ticker
        ELSE IF f = "category" THEN Get(series, "category", "Other")
        ELSE m[f]]

\* a loop's state: what it has collected, and whether `break` was hit
Loop(acc, brk) == [acc |-> acc, brk |-> brk]

\* app.py:220-232  body of the inner loop of get_markets
MarketsInnerBody(acc, m, series, lim) ==
    LET acc2 == Append(acc, MarketEntry(m, series))
    IN Loop(acc2, Len(acc2) >= lim)

\* app.py:219  for market in markets.get('markets', [])[:5]
RECURSIVE MarketsInner(_, _, _, _, _)
MarketsInner(ms, i, st, series, lim) ==
    IF i > Len(ms) \/ st.brk THEN st.acc
    ELSE MarketsInner(ms, i + 1, MarketsInnerBody(st.acc, ms[i], series, lim),
                      series, lim)

\* app.py:216-236  body of the outer loop of get_markets: the counter, the
\* try block, `except: continue`, and the break test after it
MarketsOuterBody(st, series, lim) ==
    IF FetchFails(series)
      THEN [acc |-> st.acc, series_checked |-> st.series_checked + 1,
            brk |-> FALSE]
      ELSE LET acc2 == MarketsInner(Take(series.markets, PerSeriesMarkets), 1,
                                    Loop(st.acc, FALSE), series, lim)
           IN [acc |-> acc2, series_checked |-> st.series_checked + 1,
               brk |-> Len(acc2) >= lim]

\* app.py:215  for series in series_list[:max_series]
RECURSIVE MarketsOuter(_, _, _, _)
MarketsOuter(sl, i, st, lim) ==
    IF i > Len(sl) \/ st.brk THEN st
    ELSE MarketsOuter(sl, i + 1, MarketsOuterBody(st, sl[i], lim), lim)

\* app.py:268-274  body of the inner loop of get_scores
ScoresInnerBody(acc, m, series, lim) ==
    LET sc == calculate_inefficiency_score(Tagged(m, series))
    IN IF IsRecord(sc)
         THEN Loop(Append(acc, sc), Len(acc) + 1 >= lim * 2)
         ELSE Loop(acc, FALSE)

\* app.py:267  for market in markets.get('markets', [])[:5]
RECURSIVE ScoresInner(_, _, _, _, _)
ScoresInner(ms, i, st, series, lim) ==
    IF i > Len(ms) \/ st.brk THEN st.acc
    ELSE ScoresInner(ms, i + 1, ScoresInnerBody(st.acc, ms[i], series, lim),
                     series, lim)

\* app.py:264-278  body of the outer loop of get_scores
ScoresOuterBody(st, series, lim) ==
    IF FetchFails(series)
      THEN [acc |-> st.acc, series_checked |-> st.series_checked + 1,
            brk |-> FALSE]
      ELSE LET acc2 == ScoresInner(Take(series.markets, PerSeriesScores), 1,
                                   Loop(st.acc, FALSE), series, lim)
           IN [acc |-> acc2, series_checked |-> st.series_checked + 1,
               brk |-> Len(acc2) >= lim * 2]

\* app.py:263  for series in series_list[:max_series]
RECURSIVE ScoresOuter(_, _, _, _)
ScoresOuter(sl, i, st, lim) ==
    IF i > Len(sl) \/ st.brk THEN st
    ELSE ScoresOuter(sl, i + 1, ScoresOuterBody(st, sl[i], lim), lim)

\* Keeps without the is_opportunity test
KeepsAnyScore(sc) == IsRecord(sc)

\* app.py:317  `if score and score['is_opportunity']`
Keeps(sc) == IsRecord(sc) /\ sc.is_opportunity

\* app.py:314-320  body of the inner loop of get_opportunities
OppsInnerBody(acc, m, series, lim) ==
    LET sc == calculate_inefficiency_score(Tagged(m, series))
    IN IF Keeps(sc)
         THEN Loop(Append(acc, sc), Len(acc) + 1 >= lim)
         ELSE Loop(acc, FALSE)

\* app.py:313  for market in markets.get('markets', [])[:10]
RECURSIVE OppsInner(_, _, _, _, _)
OppsInner(ms, i, st, series, lim) ==
    IF i > Len(ms) \/ st.brk THEN st.acc
    ELSE OppsInner(ms, i + 1, OppsInnerBody(st.acc, ms[i], series, lim),
                   series, lim)

\* app.py:310-324  body of the outer loop of get_opportunities
OppsOuterBody(st, series, lim) ==
    IF FetchFails(series)
      THEN [acc |-> st.acc, series_checked |-> st.series_checked + 1,
            brk |-> FALSE]
      ELSE LET acc2 == OppsInner(Take(series.markets, PerSeriesOpportunities),
                                 1, Loop(st.acc, FALSE), series, lim)
           IN [acc |-> acc2, series_checked |-> st.series_checked + 1,
               brk |-> Len(acc2) >= lim]

\* app.py:309  for series in series_list[:max_series]
RECURSIVE OppsOuter(_, _, _, _)
OppsOuter(sl, i, st, lim) ==
    IF i > Len(sl) \/ st.brk THEN st
    ELSE OppsOuter(sl, i + 1, OppsOuterBody(st, sl[i], lim), lim)

\* all_markets = [] / scored_markets = [] / opportunities = [], series_checked = 0
LoopStart == [acc |-> <<>>, series_checked |-> 0, brk |-> FALSE]

\* list.sort(key=inefficiency_score, reverse=True): stable, descending
RECURSIVE InsertDesc(_, _)
InsertDesc(sorted, x) ==
    IF sorted = <<>> THEN <<x>>
    ELSE IF Head(sorted).inefficiency_score >= x.inefficiency_score
      THEN <<Head(sorted)>> \o InsertDesc(Tail(sorted), x)
      ELSE <<x>> \o sorted

RECURSIVE SortDesc(_)
SortDesc(seq) ==
    IF seq = <<>> THEN <<>>
    ELSE InsertDesc(SortDesc(SubSeq(seq, 1, Len(seq) - 1)), seq[Len(seq)])

\* app.py:243-244, 289-290, 331-332
Error500 == [status |-> 500, error |-> "Kalshi API error"]

\* app.py:196-244  GET /api/markets, for an upstream answer
markets_response(sfetch, sdata, lim, filter) ==
    IF sfetch = "fail" THEN Error500
    ELSE LET series_list == FilterCategory(sdata, filter)
             r == MarketsOuter(Take(series_list, MaxSeriesMarkets), 1, LoopStart,
                               lim)
         IN [status |-> 200,
             markets |-> Take(r.acc, lim),
             count |-> Len(Take(r.acc, lim)),
             series_checked |-> r.series_checked]

\* scores_response where one failing series fetch aborts the request
scores_response_abort(sfetch, sdata, lim, filter) ==
    IF sfetch = "fail" THEN Error500
    ELSE LET series_list == Take(FilterCategory(sdata, filter),
                                 MaxSeriesScores)
         IN IF \E i \in 1..Len(series_list) : FetchFails(series_list[i])
              THEN Error500
              ELSE LET r == ScoresOuter(series_list, 1, LoopStart, lim)
                       scored_markets == SortDesc(r.acc)
                   IN [status |-> 200,
                       scores |-> Take(scored_markets, lim),
                       opportunities_found |->
                           Len(SelectSeq(scored_markets,
                                         LAMBDA m : m.is_opportunity)),
                       total_scored |-> Len(scored_markets),
                       series_checked |-> r.series_checked]

\* app.py:247-290  GET /api/scores
scores_response(sfetch, sdata, lim, filter) ==
    IF sfetch = "fail" THEN Error500
    ELSE LET series_list == FilterCategory(sdata, filter)
             r == ScoresOuter(Take(series_list, MaxSeriesScores), 1, LoopStart,
                              lim)
             scored_markets == SortDesc(r.acc)
             opportunities == SelectSeq(scored_markets,
                                        LAMBDA m : m.is_opportunity)
         IN [status |-> 200,
             scores |-> Take(scored_markets, lim),
             opportunities_found |-> Len(opportunities),
             total_scored |-> Len(scored_markets),
             series_checked |-> r.series_checked]

\* app.py:293-332  GET /api/opportunities
opportunities_response(sfetch, sdata, lim, filter) ==
    IF sfetch = "fail" THEN Error500
    ELSE LET series_list == FilterCategory(sdata, filter)
             r == OppsOuter(Take(series_list, MaxSeriesOpportunities), 1,
                            LoopStart, lim)
         IN [status |-> 200,
             opportunities |-> r.acc,
             count |-> Len(r.acc),
             series_checked |-> r.series_checked]

\* the three route handlers, each run once on the request
get_markets ==
    /\ phase = "ready"
    /\ resp' = markets_response(series_fetch, series_data, limit,
                                category_filter)
    /\ phase' = "markets"
    /\ UNCHANGED <<market, score, limit, category_filter, series_fetch,
                   series_data, listing, gwvars, kcvars>>

get_scores ==
    /\ phase = "ready"
    /\ resp' = scores_response(series_fetch, series_data, limit,
                               category_filter)
    /\ phase' = "scores"
    /\ UNCHANGED <<market, score, limit, category_filter, series_fetch,
                   series_data, listing, gwvars, kcvars>>

get_opportunities ==
    /\ phase = "ready"
    /\ resp' = opportunities_response(series_fetch, series_data, limit,
                                      category_filter)
    /\ phase' = "opportunities"
    /\ UNCHANGED <<market, score, limit, category_filter, series_fetch,
                   series_data, listing, gwvars, kcvars>>

\* ----- upstream answers: markets that score high (H, 967.27), lower
\* (L, 362.67), and without being an opportunity (N, spread 1.01%)
MarketPool ==
    {[ticker |-> "H", yes_bid |-> 40, yes_ask |-> 60, open_interest |-> 100,
      volume_24h |-> 10],
     [ticker |-> "L", yes_bid |-> 48, yes_ask |-> 52, open_interest |-> 50,
      volume_24h |-> 5],
     [ticker |-> "N", yes_bid |-> 99, yes_ask |-> 100, open_interest |-> 100,
      volume_24h |-> 10]}

SeqsUpTo(S, n) == UNION {[1..k -> S] : k \in 0..n}

Categories == {"Crypto", "Sports"}

SeriesAnswers ==
    {[category |-> c, fetch |-> "fail", markets |-> <<>>] : c \in Categories}
    \cup {[category |-> c, fetch |-> "ok", markets |-> ms] :
            c \in Categories, ms \in SeqsUpTo(MarketPool, MaxMarkets)}

\* series i of the listing has ticker i
WithTickers(answers) ==
    [i \in 1..Len(answers) |->
        [ticker |-> i, category |-> answers[i].category,
         fetch |-> answers[i].fetch, markets |-> answers[i].markets]]

InitAgg ==
    /\ GatewayIdle
    /\ listing = NoListing
    /\ market = <<>>
    /\ score = NoneScore
    /\ limit \in 0..MaxLimit
    /\ category_filter \in {"", "crypto"}
    /\ \/ /\ series_fetch = "fail"
          /\ series_data = <<>>
       \/ /\ series_fetch = "ok"
          /\ \E answers \in SeqsUpTo(SeriesAnswers, MaxSeries) :
                series_data = WithTickers(answers)
    /\ resp = [status |-> 0]
    /\ phase = "ready"
NextAgg == get_markets \/ get_scores \/ get_opportunities
SpecAgg == InitAgg /\ [][NextAgg]_vars

\* ------------------------------------- the market listing route, markets.py
MaxListing == 2

\* markets.py:9  default of the limit argument
DefaultLimit == 100

\* sum(o.get('quantity', 0) for o in orders)
RECURSIVE SumQuantity(_)
SumQuantity(orders) ==
    IF orders = <<>> THEN 0
    ELSE Get(Head(orders), "quantity", 0) + SumQuantity(Tail(orders))

\* markets.py:17-24  the try block, when client.get_market_orderbook returns
BookValues(orderbook) ==
    LET yes_orders == orderbook.yes
        no_orders == orderbook.no
    IN [yes_bid |-> IF yes_orders # <<>> THEN yes_orders[1].price ELSE 0,
        yes_ask |-> IF yes_orders # <<>>
                      THEN yes_orders[Len(yes_orders)].price ELSE 100,
        no_bid |-> IF no_orders # <<>> THEN no_orders[1].price ELSE 0,
        no_ask |-> IF no_orders # <<>>
                     THEN no_orders[Len(no_orders)].price ELSE 100,
        liquidity |-> SumQuantity(Take(yes_orders, 5))
                      + SumQuantity(Take(no_orders, 5))]

\* markets.py:26-30  the except block's assignments
BookDefaults ==
    [yes_bid |-> 0, yes_ask |-> 100, no_bid |-> 0, no_ask |-> 100,
     liquidity |-> 0]

\* markets.py:31-44  the dict appended to markets
ListingEntry(m, v) ==
    [ticker |-> m.ticker,
     title |-> Get(m, "title", ""),
     yes_bid |-> v.yes_bid,
     yes_ask |-> v.yes_ask,
     no_bid |-> v.no_bid,
     no_ask |-> v.no_ask,
     volume |-> Get(m, "volume", 0),
     open_interest |-> Get(m, "open_interest", 0),
     liquidity |-> v.liquidity,
     close_time |-> Get(m, "close_time", ""),
     category |-> Get(m, "category", "Other")]

\* markets.py:15-44  one pass of the loop body: the append of lines 31-44 is
\* indented under `except:`, so it runs only when the order-book fetch raised
ListingBody(acc, m) ==
    IF m.orderbook.fetch = "ok"
      THEN acc
      ELSE Append(acc, ListingEntry(m, BookDefaults))

\* markets.py:14  for market in data.get('markets', [])
RECURSIVE ListingLoop(_, _, _)
ListingLoop(ms, i, acc) ==
    IF i > Len(ms) THEN acc
    ELSE ListingLoop(ms, i + 1, ListingBody(acc, ms[i]))

\* markets.py:46-47
ListingError500 == [status |-> 500, error |-> "exception"]

\* markets.py:7-47  GET /markets, given what get_kalshi_client did
listing_response(client, data) ==
    IF client = "NameError" THEN ListingError500
    ELSE IF data.fetch = "fail" THEN ListingError500
    ELSE [status |-> 200,
          markets |-> ListingLoop(data.markets, 1, <<>>)]

\* api_client.py:125-130 as called from markets.py:11
ClientFor(kc) ==
    IF kc = "unbound" THEN "NameError" ELSE "instance"

\* the route handler of markets.py, run once on the request
list_markets ==
    /\ phase = "ready"
    /\ resp' = listing_response(ClientFor(kclient), listing)
    /\ kclient' = IF kclient = "None" THEN "instance" ELSE kclient
    /\ constructed' = IF kclient = "None" THEN constructed + 1 ELSE constructed
    /\ phase' = "listing"
    /\ UNCHANGED <<market, score, limit, category_filter, series_fetch,
                   series_data, listing, kresult, gwvars>>

\* ----- upstream answers: order books with no, one or two levels a side
OrderLevels ==
    {<<>>,
     <<[price |-> 40, quantity |-> 3]>>,
     <<[price |-> 40, quantity |-> 3], [price |-> 45, quantity |-> 2]>>}

OrderbookAnswers ==
    {[fetch |-> "fail"]}
    \cup {[fetch |-> "ok", yes |-> y, no |-> n] :
            y \in OrderLevels, n \in OrderLevels}

\* market i of the listing has ticker i
ListedMarkets(books) ==
    [i \in 1..Len(books) |-> [ticker |-> i, orderbook |-> books[i]]]

InitListing ==
    /\ GatewayIdle
    /\ market = <<>>
    /\ score = NoneScore
    /\ limit = DefaultLimit
    /\ category_filter = ""
    /\ series_fetch = "ok"
    /\ series_data = <<>>
    /\ resp = [status |-> 0]
    /\ phase = "ready"
    /\ \/ listing = NoListing
       \/ \E books \in SeqsUpTo(OrderbookAnswers, MaxListing) :
             listing = [fetch |-> "ok", markets |-> ListedMarkets(books)]
NextListing == list_markets
SpecListing == InitListing /\ [][NextListing]_vars

\* ------------------------------------------------------- specifications
Step(t) ==
    \/ Call(t)
    \/ ReadTime(t)
    \/ CheckToken(t)
    \/ CheckExpiry(t)
    \/ ReturnCached(t)
    \/ LoginOk(t)
    \/ StoreToken(t)
    \/ StoreExpiry(t)
    \/ ReturnToken(t)
    \/ Finish(t)

\* one caller, logins always answered 200
InitSeq == GatewayInit({1}) /\ KcInit /\ AppIdle
NextSeq == Tick \/ \E t \in Threads : Step(t)
SpecSeq == InitSeq /\ [][NextSeq]_vars

\* two concurrent requests on the shared client, logins may be refused
Init == GatewayInit({1, 2}) /\ KcInit /\ AppIdle
Next ==
    \/ Tick
    \/ \E t \in Threads : Step(t)
    \/ \E t \in Threads : LoginFail(t)
    \/ \E t \in Threads : get_kalshi_client(t)
Spec == Init /\ [][Next]_vars

\* ------------------------------------------------------------- claims
Finished(t) == pc[t] \in {"idle", "done", "raised"}

\* C1: with one caller and logins always answered 200, a call made while a
\* token is cached and the time is before token_expiry performs no login and
\* returns the cached token; any other call performs exactly one login,
\* replaces the cached token by the newly issued one, opens a new window of
\* 23 hours from the time it read, and returns the new token.
C1_SessionReuse ==
    \A t \in callers :
        pc[t] = "done" =>
            IF startToken[t] # None /\ current_time[t] < startExpiry[t]
              THEN /\ nlogins[t] = 0
                   /\ ret[t] = startToken[t]
                   /\ token = startToken[t]
              ELSE /\ nlogins[t] = 1
                   /\ token # startToken[t]
                   /\ token \in issued
                   /\ token_expiry = current_time[t] + TokenTTL
                   /\ ret[t] = token

\* a third call re-logs in at expiry after the second call reused the token
C1_Witness ==
    /\ pc[1] = "done"
    /\ ncalls = 3
    /\ totalLogins = 2
    /\ nlogins[1] = 1
    /\ startToken[1] # None
    /\ current_time[1] = startExpiry[1]

\* C2: under every interleaving of two requests each call performs at most
\* one login, every call that returns hands back a token some 200 login
\* issued, and once every call has finished after some login succeeded the
\* cached token is one a 200 login issued.
C2_ConcurrentRefresh ==
    /\ \A t \in Threads : nlogins[t] <= 1
    /\ totalLogins <= ncalls
    /\ \A t \in Threads : pc[t] = "done" => ret[t] \in issued
    /\ ((\A t \in Threads : Finished(t)) /\ issued # {}) => token \in issued

\* both requests found no token, both logged in, both have returned
C2_Witness ==
    /\ pc[1] = "done" /\ pc[2] = "done"
    /\ startToken[1] = None /\ startToken[2] = None
    /\ nlogins[1] = 1 /\ nlogins[2] = 1
    /\ totalLogins = 2

\* C9: no call of get_kalshi_client fails, and the client is constructed at
\* most once.
C9_Singleton ==
    /\ constructed <= 1
    /\ \A t \in Threads : kresult[t] \in {"none", "instance"}

\* C10: the cached expiry is never later than 23 hours after the start of
\* the login call that issued the cached token.
C10_ExpiryWithin23h ==
    Truthy(token) => token_expiry <= loginStart[token] + TokenTTL

\* ----- the aggregation endpoints
Records(r) ==
    IF "markets" \in DOMAIN r THEN r.markets
    ELSE IF "scores" \in DOMAIN r THEN r.scores
    ELSE IF "opportunities" \in DOMAIN r THEN r.opportunities
    ELSE <<>>

Handled == phase \in {"markets", "scores", "opportunities"}

\* the response of the endpoint that ran, had the upstream listing been sdata
ResponseOn(sdata) ==
    IF phase = "markets"
      THEN markets_response(series_fetch, sdata, limit, category_filter)
    ELSE IF phase = "scores"
      THEN scores_response(series_fetch, sdata, limit, category_filter)
    ELSE opportunities_response(series_fetch, sdata, limit, category_filter)

\* the series the endpoint that ran iterates over
Iterated ==
    Take(FilterCategory(series_data, category_filter),
         IF phase = "markets" THEN MaxSeriesMarkets
         ELSE IF phase = "scores" THEN MaxSeriesScores
         ELSE MaxSeriesOpportunities)

FetchedOnly(sl) == SelectSeq(sl, LAMBDA sr : sr.fetch = "ok")

FailedAmong(sl, n) == Cardinality({i \in 1..Min(n, Len(sl)) : sl[i].fetch = "fail"})

SomeAttemptFailed ==
    /\ Handled
    /\ series_fetch = "ok"
    /\ resp.status = 200 => FailedAmong(Iterated, resp.series_checked) >= 1
    /\ resp.status # 200 => FailedAmong(Iterated, Len(Iterated)) >= 1

\* C3: when the market fetch of a series that was attempted fails, the
\* request still answers 200, the records are those the same request gathers
\* from the series whose fetch succeeded (none comes from a failed series),
\* and series_checked counts the failed series as well.
C3_FailureIsolation ==
    SomeAttemptFailed =>
        /\ resp.status = 200
        /\ Records(resp) = Records(ResponseOn(FetchedOnly(series_data)))
        /\ \A k \in 1..Len(Records(resp)) :
              \E i \in 1..Len(series_data) :
                  /\ series_data[i].ticker = Records(resp)[k].series_ticker
                  /\ series_data[i].fetch = "ok"
        /\ resp.series_checked =
              ResponseOn(FetchedOnly(series_data)).series_checked
              + FailedAmong(Iterated, resp.series_checked)

\* /api/scores met a failed series first and still returned the records of
\* the second
C3_Witness ==
    /\ phase = "scores"
    /\ Len(series_data) = 2
    /\ category_filter = ""
    /\ series_data[1].fetch = "fail"
    /\ resp.status = 200
    /\ resp.series_checked = 2
    /\ Len(resp.scores) = 1

SortedDesc(recs) ==
    \A k \in 1..(Len(recs) - 1) :
        recs[k].inefficiency_score >= recs[k + 1].inefficiency_score

\* C4: the records of /api/scores and /api/opportunities are in descending
\* order of inefficiency_score.
C4_SortedDescending ==
    (phase \in {"scores", "opportunities"} /\ resp.status = 200)
        => SortedDesc(Records(resp))

\* C5: no endpoint returns more than limit records.
C5_AtMostLimit ==
    (Handled /\ resp.status = 200) => Len(Records(resp)) <= limit

\* the opportunity criteria recomputed from a record's raw fields
MeetsCriteria(rec) ==
    LET a == rec.yes_ask
        b == rec.yes_bid
        oi == rec.open_interest
        v1 == rec.volume_24h + 1
    IN /\ a + b > 0
       /\ 100 * (a - b) > a + b
       /\ 2000 * (a - b) * (3 * v1 + oi) > (a + b) * oi * v1

\* C6: every record of /api/opportunities has is_opportunity true, with
\* spread_pct > 0.02 and inefficiency_score > 20.
C6_OnlyOpportunities ==
    (phase = "opportunities" /\ resp.status = 200) =>
        \A k \in 1..Len(resp.opportunities) :
            /\ resp.opportunities[k].is_opportunity
            /\ MeetsCriteria(resp.opportunities[k])

\* /api/opportunities returned a record although the series also listed a
\* market that scores without being an opportunity
C6_Witness ==
    /\ phase = "opportunities"
    /\ resp.status = 200
    /\ Len(resp.opportunities) >= 1
    /\ \E i \in 1..Len(Iterated) :
          /\ i <= resp.series_checked
          /\ Iterated[i].fetch = "ok"
          /\ Len(Iterated[i].markets) >= 1
          /\ Iterated[i].markets[1].ticker = "N"

\* ----- the scoring engine
InRange(x) == x \in 0..100
Scored == phase = "done" /\ IsRecord(score)

\* C7 as stated: for every scored market with yes_bid and yes_ask in
\* [0,100], spread_pct >= 0 and mid_price > 0.
C7_AsStated ==
    (Scored /\ InRange(score.yes_bid) /\ InRange(score.yes_ask))
        => (score.spread_pct >= 0 /\ score.mid_price > 0)

\* C7 amended: for every scored market with yes_bid <= yes_ask, both in
\* [0,100], spread_pct >= 0 and mid_price > 0.
C7_NonNegativeSpread ==
    (/\ Scored
     /\ InRange(score.yes_bid) /\ InRange(score.yes_ask)
     /\ score.yes_bid <= score.yes_ask)
        => (score.spread_pct >= 0 /\ score.mid_price > 0)

\* a market with bid below ask was scored
C7_Witness ==
    /\ Scored
    /\ score.yes_bid = 40 /\ score.yes_ask = 60
    /\ score.spread_pct = 4000
    /\ score.mid_price = 5000

\* the documented defaults of the four inputs
FieldOr(f, dflt) == IF f \in DOMAIN market THEN market[f] ELSE dflt

\* C8: the scoring engine returns no record exactly when open_interest < 50,
\* or volume_24h < 5, or yes_bid = 0 and yes_ask = 100, or the mid price is
\* 0, missing fields taken at their defaults; otherwise it returns a record.
C8_ExclusionExact ==
    phase = "done" =>
        LET b == FieldOr("yes_bid", 0)
            a == FieldOr("yes_ask", 100)
            oi == FieldOr("open_interest", 0)
            v == FieldOr("volume_24h", 0)
            out == \/ oi < 50
                   \/ v < 5
                   \/ (b = 0 /\ a = 100)
                   \/ b + a = 0
        IN /\ out <=> (score = NoneScore)
           /\ ~out <=> IsRecord(score)

\* a liquid, traded market whose prices are missing is excluded through the
\* defaults yes_bid = 0, yes_ask = 100
C8_Witness ==
    /\ phase = "done"
    /\ DOMAIN market = {"open_interest", "volume_24h"}
    /\ market.open_interest = 100 /\ market.volume_24h = 10
    /\ score = NoneScore

\* ----- the market listing route
\* what the entry of a listed market must carry
ExpectedBook(m) ==
    IF m.orderbook.fetch = "ok" THEN BookValues(m.orderbook) ELSE BookDefaults

\* C11: the listing route returns exactly one entry for each market of the
\* upstream listing, in upstream order, carrying the order-book-derived
\* values when that market's order-book fetch succeeded and the defaults
\* (0, 100, 0, 100, liquidity 0) when it failed.
C11_OneEntryPerMarket ==
    (phase = "listing" /\ listing.fetch = "ok") =>
        /\ resp.status = 200
        /\ Len(resp.markets) = Len(listing.markets)
        /\ \A i \in 1..Len(listing.markets) :
              LET e == resp.markets[i]
                  v == ExpectedBook(listing.markets[i])
              IN /\ e.ticker = listing.markets[i].ticker
                 /\ e.yes_bid = v.yes_bid /\ e.yes_ask = v.yes_ask
                 /\ e.no_bid = v.no_bid /\ e.no_ask = v.no_ask
                 /\ e.liquidity = v.liquidity

====
